---- MODULE Spec2Model ----
(***************************************************************************)
(* A model of the log-structured key-value store (src/src/kvs.rs) and of   *)
(* the single-threaded TCP dispatcher in front of it                        *)
(* (src/src/server_commands.rs).                                            *)
(*                                                                          *)
(* The log file is a sequence of records; every record has the byte length *)
(* of its serde_json encoding, so that offsets, lengths and the dirt       *)
(* counter are the numbers the program computes.  A string value is kept   *)
(* as a run [ch, n] (the character ch repeated n times): its content is ch *)
(* and its byte length is n, which lets a single record be as large as the *)
(* compaction threshold without enumerating its bytes.                     *)
(***************************************************************************)
EXTENDS Integers, Sequences, FiniteSets, TLC

VARIABLES
    file,       \* the log file on disk: the sequence of records appended to it
    opened,     \* TRUE while a KvStore value exists for the path
    index,      \* KvStore.index: key -> [start, length]
    wpos,       \* KvStore.writer.position
    rpos,       \* KvStore.reader.position (the wrapper's counter)
    roff,       \* the offset of the reader's file handle in the operating system
    dirt,       \* KvStore.dirt
    result,     \* what the last engine call returned
    nops,       \* number of records the engine was asked to append so far
    last,       \* history: key -> the value of the most recent set, if not removed since
    allOk,      \* history: every engine call so far returned Ok
    compacted,  \* history: the last call ran compact() to completion
    before,     \* history: what get returned for each key just before compact() / close
    gone,       \* history: keys removed on this engine and not set again since
    conns,      \* the commands of the connections made to the listener, in order
    accepted,   \* history: the connections listener.incoming() has yielded, in order
    cur,        \* the connection handle_stream is running on, 0 when none
    resp,       \* connection -> the responses written to its stream
    closed,     \* the connections whose stream the server has dropped
    srv,        \* "running", or how KvsServer::run ended
    handled,    \* history: the connections handle_stream has run on, in order
    exchange    \* history: the command and responses of the last handle_stream

engineVars == <<file, opened, index, wpos, rpos, roff, dirt, result>>
historyVars == <<nops, last, allOk, compacted, before, gone>>
serverVars == <<conns, accepted, cur, resp, closed, srv, handled, exchange>>
vars == <<file, opened, index, wpos, rpos, roff, dirt, result,
          nops, last, allOk, compacted, before, gone,
          conns, accepted, cur, resp, closed, srv, handled, exchange>>

(***************************************************************************)
(* Bounds and inputs                                                        *)
(***************************************************************************)
THRESHOLD == 8008135

\* Number of set / successful remove calls explored.
MaxOps == 4

\* Number of records in a log file given to open.
MaxLog == 4

\* Number of connections made to the server.
MaxConns == 4

\* Byte length of the long values: a Set record of a one-byte key and a
\* value of this length is exactly THRESHOLD bytes long.
BigLen == 8008105

\* Bytes of a value that a write may put in the file before it fails.
MaxPart == 1

Keys == {"a", "b"}

\* The keys in ascending String order, the order BTreeMap iterates in.
KeyOrder == <<"a", "b">>

Str(c, len) == [ch |-> c, n |-> len]

Empty == Str("", 0)

Values == {Str("x", BigLen), Str("y", BigLen), Str("z", 1)}

(***************************************************************************)
(* Command records and their serde_json encoding                            *)
(***************************************************************************)
SetRec(k, v) == [type |-> "Set", key |-> k, value |-> v]

RmRec(k) == [type |-> "Rm", key |-> k, value |-> Empty]

GetRec(k) == [type |-> "Get", key |-> k, value |-> Empty]

\* What the file holds of a Set record r whose last bytes never reached it:
\* the encoding of r up to the end of the value, without the closing "}}.
Torn(r) == [type |-> "Torn", key |-> r.key, value |-> r.value]

\* Byte length of serde_json::to_writer's output:
\*   {"Set":{"key":"K","value":"V"}}   {"Rm":{"key":"K"}}   {"Get":{"key":"K"}}
\* and of a torn Set record:   {"Set":{"key":"K","value":"V
RecLen(r) ==
    CASE r.type = "Set" -> 29 + Len(r.key) + r.value.n
      [] r.type = "Rm"  -> 17 + Len(r.key)
      [] r.type = "Get" -> 18 + Len(r.key)
      [] r.type = "Torn" -> 26 + Len(r.key) + r.value.n

\* Offsets, within the encoding of r, of the bytes that are a double quote.
Quotes(r) ==
    LET a == Len(r.key) IN
    CASE r.type = "Set" ->
            {1, 5, 8, 12, 14, 15 + a, 17 + a, 23 + a, 25 + a, 26 + a + r.value.n}
      [] r.type = "Rm"  -> {1, 4, 7, 11, 13, 14 + a}
      [] r.type = "Get" -> {1, 5, 8, 12, 14, 15 + a}
      [] r.type = "Torn" -> {1, 5, 8, 12, 14, 15 + a, 17 + a, 23 + a, 25 + a}

\* Offset, within the encoding of r, of the inner opening brace.
InnerBrace(r) == IF r.type = "Rm" THEN 6 ELSE 7

Min(x, y) == IF x <= y THEN x ELSE y

SetMin(S) == CHOOSE x \in S : \A y \in S : x <= y

RECURSIVE FileLen(_)
FileLen(f) == IF f = <<>> THEN 0 ELSE RecLen(Head(f)) + FileLen(Tail(f))

\* Byte offset at which record i of f starts.
Offset(f, i) == FileLen(SubSeq(f, 1, i - 1))

\* The record of f that holds byte off (off < FileLen(f)).
RecordAt(f, off) ==
    CHOOSE i \in 1..Len(f) : Offset(f, i) <= off /\ off < Offset(f, i) + RecLen(f[i])

\* Bytes the JSON decoder takes from the handle before it reports an error,
\* when it starts d > 0 bytes into record i: a string up to its closing
\* quote, an object up to its first key, one byte otherwise.
JunkRead(f, i, d) ==
    LET r == f[i]
        later == {q \in Quotes(r) : q > d}
    IN  IF d \in Quotes(r)
        THEN IF later # {} THEN SetMin(later) - d + 1 ELSE RecLen(r) - d + 2
        ELSE IF d = InnerBrace(r) THEN 6 ELSE 1

\* Bytes of a take(len) at byte off that the file can supply.
Avail(f, off, len) == IF off >= FileLen(f) THEN 0 ELSE Min(len, FileLen(f) - off)

Failed(end) == [ok |-> FALSE, rec |-> GetRec(""), end |-> end]

\* The decoder started d bytes into record i (of n bytes) with avail bytes
\* to take: the record if the bytes are exactly it, else an error at the
\* end of the bytes (record cut short), one byte past the record (trailing
\* characters) or after the junk read (start inside a record).  A torn
\* record ends the file, and the decoder fails at the end of the bytes.
ReadRecord(f, off, avail, i, d, n) ==
    IF d > 0 THEN Failed(off + Min(JunkRead(f, i, d), avail))
    ELSE IF f[i].type = "Torn" THEN Failed(off + avail)
    ELSE IF n = avail THEN [ok |-> TRUE, rec |-> f[i], end |-> off + n]
    ELSE IF n > avail THEN Failed(off + avail)
    ELSE Failed(off + n + 1)

ReadIn(f, off, avail, i) == ReadRecord(f, off, avail, i, off - Offset(f, i), RecLen(f[i]))

ReadAvail(f, off, avail) ==
    IF avail = 0 THEN Failed(off) ELSE ReadIn(f, off, avail, RecordAt(f, off))

\* serde_json::from_reader(handle.take(len)) with the handle at byte off:
\* ok with the record decoded, or an error; end is where the handle is left.
ReadTake(f, off, len) == ReadAvail(f, off, Avail(f, off, len))

(***************************************************************************)
(* Results of engine calls                                                  *)
(***************************************************************************)
Ok(o, k) == [op |-> o, key |-> k, ok |-> TRUE, kind |-> "Ok", val |-> Empty]

Some(k, v) == [op |-> "get", key |-> k, ok |-> TRUE, kind |-> "Some", val |-> v]

None(k) == [op |-> "get", key |-> k, ok |-> TRUE, kind |-> "None", val |-> Empty]

Err(o, k, e) == [op |-> o, key |-> k, ok |-> FALSE, kind |-> e, val |-> Empty]

\* An error that carries an io::Error: KvStoreError::IoError, or a
\* SerdeSerError whose serde_json::Error is of the Io category.
IoErr(o, k, e) == [op |-> o, key |-> k, ok |-> FALSE, kind |-> e, val |-> Str("io", 0)]

\* An Option<String> of the history variables.
Present(v) == [some |-> TRUE, val |-> v]

Absent == [some |-> FALSE, val |-> Empty]

\* The engine's in-memory fields as one value.
Engine == [index |-> index, wpos |-> wpos, rpos |-> rpos, roff |-> roff, dirt |-> dirt]

Put(idx, k, e) == [x \in DOMAIN idx \cup {k} |-> IF x = k THEN e ELSE idx[x]]

Del(idx, k) == [x \in DOMAIN idx \ {k} |-> idx[x]]

NoIndex == [x \in {} |-> [start |-> 0, length |-> 0]]

(***************************************************************************)
(* KvStore::compact                                                         *)
(***************************************************************************)
\* The loop over self.index.values_mut(), from the j-th key on: idx, rp and
\* ro are the index, reader.position and the handle's offset so far, curr is
\* curr_position and new is new_values.
RECURSIVE CompactLoop(_, _, _, _, _, _, _)
RECURSIVE CompactRead(_, _, _, _, _, _, _)
RECURSIVE CompactEntry(_, _, _, _, _, _, _)

\* The rest of one iteration, given rd, the outcome of
\* serde_json::from_reader(self.reader.source.get_ref().take(cmds.length)).
CompactRead(f, idx, rp, curr, new, j, rd) ==
    IF ~rd.ok
    THEN [ok |-> FALSE, index |-> idx, rpos |-> rp, roff |-> rd.end, new |-> new]
    ELSE IF rd.rec.type = "Set"
    THEN CompactLoop(f,
                     [idx EXCEPT ![KeyOrder[j]] =
                         [start |-> curr, length |-> idx[KeyOrder[j]].length]],
                     rp, rd.end, curr + idx[KeyOrder[j]].length,
                     Append(new, SetRec(rd.rec.key, rd.rec.value)), j + 1)
    ELSE CompactLoop(f, idx, rp, rd.end, curr, new, j + 1)

\* One iteration: if self.reader.position != cmds.start { self.reader.seek(..) }
CompactEntry(f, idx, rp, ro, curr, new, j) ==
    IF rp # idx[KeyOrder[j]].start
    THEN CompactRead(f, idx, idx[KeyOrder[j]].start, curr, new, j,
                     ReadTake(f, idx[KeyOrder[j]].start, idx[KeyOrder[j]].length))
    ELSE CompactRead(f, idx, rp, curr, new, j,
                     ReadTake(f, ro, idx[KeyOrder[j]].length))

CompactLoop(f, idx, rp, ro, curr, new, j) ==
    IF j > Len(KeyOrder)
    THEN [ok |-> TRUE, index |-> idx, rpos |-> rp, roff |-> ro, new |-> new]
    ELSE IF KeyOrder[j] \notin DOMAIN idx
    THEN CompactLoop(f, idx, rp, ro, curr, new, j + 1)
    ELSE CompactEntry(f, idx, rp, ro, curr, new, j)

\* BufWriterWithPos::seek(SeekFrom::Start(0)) on the append-mode handle of a
\* file of size bytes: lseek answers the offset asked for, whatever the size.
WriterSeekStart(size) == 0

\* The end of compact(), given lp, the outcome of its loop.  On a decode
\* error the `?` returns with the index entries rewritten so far and the file
\* as it was; otherwise: remove_file, a new writer and reader, to_writer of
\* every survivor, flush, reader.seek(0), writer.seek(0).
Rewrite(f, e, lp) ==
    IF ~lp.ok
    THEN [ok |-> FALSE, file |-> f,
          eng |-> [e EXCEPT !.index = lp.index, !.rpos = lp.rpos, !.roff = lp.roff]]
    ELSE [ok |-> TRUE, file |-> lp.new,
          eng |-> [e EXCEPT !.index = lp.index, !.rpos = 0, !.roff = 0,
                            !.wpos = WriterSeekStart(FileLen(lp.new))]]

compact(f, e) == Rewrite(f, e, CompactLoop(f, e.index, e.rpos, e.roff, 0, <<>>, 1))

(***************************************************************************)
(* KvStore::set, get, remove, open                                          *)
(***************************************************************************)
\* The test as it would be with > in place of >=.
MustCompactStrict(d) == d > THRESHOLD

\* if self.dirt >= THRESHOLD
MustCompact(d) == d >= THRESHOLD

\* The old entry's length, charged to dirt when set replaces an entry.
Charge(idx, k) == IF k \in DOMAIN idx THEN idx[k].length ELSE 0

\* set as it would be if it wrote over the key's latest Set record in the
\* file instead of appending (a new key is appended).
InsertedInPlace(f, e, k, v) ==
    [file |-> IF \E i \in 1..Len(f) : f[i].type = "Set" /\ f[i].key = k
              THEN [f EXCEPT ![CHOOSE i \in 1..Len(f) :
                                  /\ f[i].type = "Set" /\ f[i].key = k
                                  /\ \A h \in i + 1..Len(f) :
                                         ~(f[h].type = "Set" /\ f[h].key = k)]
                                 = SetRec(k, v)]
              ELSE Append(f, SetRec(k, v)),
     eng |-> [e EXCEPT !.wpos = e.wpos + RecLen(SetRec(k, v)),
                       !.index = Put(e.index, k,
                                     [start |-> e.wpos, length |-> RecLen(SetRec(k, v))]),
                       !.dirt = e.dirt + Charge(e.index, k)]]

\* The engine just before set's threshold test: the record appended at the
\* end of the file and flushed, the entry [writer.position before, bytes
\* written] inserted, the old entry's length charged to dirt.
Inserted(f, e, k, v) ==
    [file |-> Append(f, SetRec(k, v)),
     eng |-> [e EXCEPT !.wpos = e.wpos + RecLen(SetRec(k, v)),
                       !.index = Put(e.index, k,
                                     [start |-> e.wpos,
                                      length |-> (e.wpos + RecLen(SetRec(k, v))) - e.wpos]),
                       !.dirt = e.dirt + Charge(e.index, k)]]

\* self.compact()?; self.dirt = 0;
Compacted(k, c) ==
    IF c.ok
    THEN [file |-> c.file, eng |-> [c.eng EXCEPT !.dirt = 0],
          res |-> Ok("set", k), compacted |-> TRUE]
    ELSE [file |-> c.file, eng |-> c.eng,
          res |-> Err("set", k, "SerdeSerError"), compacted |-> FALSE]

\* set from its threshold test on; ins is the engine with the record inserted.
Threshold(k, ins) ==
    IF MustCompact(ins.eng.dirt)
    THEN Compacted(k, compact(ins.file, ins.eng))
    ELSE [file |-> ins.file, eng |-> ins.eng, res |-> Ok("set", k),
          compacted |-> FALSE]

set(f, e, k, v) == Threshold(k, Inserted(f, e, k, v))

\* The end of get, given rd, the outcome of serde_json::from_reader(taken).
Got(e, k, rd) ==
    [eng |-> [e EXCEPT !.roff = rd.end],
     res |-> IF ~rd.ok THEN Err("get", k, "SerdeSerError")
             ELSE IF rd.rec.type = "Set" THEN Some(k, rd.rec.value)
             ELSE Err("get", k, "InvalidLogFileCommand")]

\* get seeks the reader's file handle itself (reader.source.get_mut()), so
\* reader.position is not touched.
get(f, e, k) ==
    IF k \in DOMAIN e.index
    THEN Got(e, k, ReadTake(f, e.index[k].start, e.index[k].length))
    ELSE [eng |-> e, res |-> None(k)]

\* A result of get as an Option<String>, an error as a value of its own.
AsOption(r) ==
    IF r.kind = "Some" THEN [some |-> TRUE, val |-> r.val]
    ELSE IF r.kind = "None" THEN [some |-> FALSE, val |-> Empty]
    ELSE [some |-> FALSE, val |-> Str(r.kind, 0)]

\* What get(k) returns on file f with index idx.
GetResult(f, idx, k) ==
    AsOption(get(f, [index |-> idx, wpos |-> 0, rpos |-> 0, roff |-> 0, dirt |-> 0], k).res)

\* remove as it would be with index.get in place of index.remove.
removeKeepsEntry(f, e, k) ==
    IF k \in DOMAIN e.index
    THEN [file |-> Append(f, RmRec(k)),
          eng |-> [e EXCEPT !.wpos = e.wpos + RecLen(RmRec(k))],
          res |-> Ok("rm", k)]
    ELSE [file |-> f, eng |-> e, res |-> Err("rm", k, "KeyNotFound")]

\* remove as it would be with the Rm record written before the index is asked.
removeLogsFirst(f, e, k) ==
    [file |-> Append(f, RmRec(k)),
     eng |-> [e EXCEPT !.index = Del(e.index, k),
                       !.wpos = e.wpos + RecLen(RmRec(k))],
     res |-> IF k \in DOMAIN e.index THEN Ok("rm", k) ELSE Err("rm", k, "KeyNotFound")]

remove(f, e, k) ==
    IF k \in DOMAIN e.index
    THEN [file |-> Append(f, RmRec(k)),
          eng |-> [e EXCEPT !.index = Del(e.index, k),
                            !.wpos = e.wpos + RecLen(RmRec(k))],
          res |-> Ok("rm", k)]
    ELSE [file |-> f, eng |-> e, res |-> Err("rm", k, "KeyNotFound")]

\* The replay as it would be with entry(key).or_insert(..): the first Set wins.
ReplayedFirstWins(idx, cmd, initial_pos, offset) ==
    CASE cmd.type = "Set" /\ cmd.key \notin DOMAIN idx ->
             Put(idx, cmd.key, [start |-> initial_pos, length |-> offset - initial_pos])
      [] cmd.type = "Rm" -> Del(idx, cmd.key)
      [] OTHER -> idx

\* One record of the replay: Set inserts [initial_pos, offset - initial_pos],
\* Rm removes, any other command is skipped.
Replayed(idx, cmd, initial_pos, offset) ==
    CASE cmd.type = "Set" ->
             Put(idx, cmd.key, [start |-> initial_pos, length |-> offset - initial_pos])
      [] cmd.type = "Rm" -> Del(idx, cmd.key)
      [] OTHER -> idx

\* The replay loop of open over the records of f from the i-th on;
\* initial_pos is the offset the i-th record starts at.
RECURSIVE Replay(_, _, _, _)
Replay(f, idx, initial_pos, i) ==
    IF i > Len(f)
    THEN [index |-> idx, pos |-> initial_pos]
    ELSE Replay(f, Replayed(idx, f[i], initial_pos, initial_pos + RecLen(f[i])),
                initial_pos + RecLen(f[i]), i + 1)

\* The engine open returns, given rp, the outcome of the replay.
Opened(rp) == [index |-> rp.index, wpos |-> rp.pos, rpos |-> 0, roff |-> 0, dirt |-> 0]

\* KvStore::open on a path whose file holds f.
open(f) == Opened(Replay(f, NoIndex, 0, 1))

\* What every key reads as.
View(f, idx) == [k \in Keys |-> GetResult(f, idx, k)]

(***************************************************************************)
(* The engine's operations as actions                                       *)
(***************************************************************************)
Install(e) ==
    /\ index' = e.index
    /\ wpos' = e.wpos
    /\ rpos' = e.rpos
    /\ roff' = e.roff
    /\ dirt' = e.dirt

\* A call of set that returned r; mid is the engine before its threshold test.
SetDone(k, v, r, mid) ==
    /\ file' = r.file
    /\ Install(r.eng)
    /\ result' = r.res
    /\ last' = [last EXCEPT ![k] = Present(v)]
    /\ allOk' = (allOk /\ r.res.ok)
    /\ compacted' = r.compacted
    /\ before' = IF r.compacted THEN View(mid.file, mid.eng.index) ELSE before
    /\ gone' = gone \ {k}
    /\ UNCHANGED opened

DoSet(k, v) ==
    /\ opened
    /\ SetDone(k, v, set(file, Engine, k, v), Inserted(file, Engine, k, v))

GetDone(r) ==
    /\ Install(r.eng)
    /\ result' = r.res
    /\ allOk' = (allOk /\ r.res.ok)
    /\ compacted' = FALSE
    /\ UNCHANGED <<file, opened, last, before, gone>>

DoGet(k) ==
    /\ opened
    /\ GetDone(get(file, Engine, k))

RemoveDone(k, r) ==
    /\ file' = r.file
    /\ Install(r.eng)
    /\ result' = r.res
    /\ last' = IF r.res.ok THEN [last EXCEPT ![k] = Absent] ELSE last
    /\ allOk' = (allOk /\ r.res.ok)
    /\ compacted' = FALSE
    /\ gone' = IF r.res.ok THEN gone \cup {k} ELSE gone
    /\ UNCHANGED <<opened, before>>

DoRemove(k) ==
    /\ opened
    /\ RemoveDone(k, remove(file, Engine, k))

SetOp(k, v) ==
    /\ nops < MaxOps
    /\ DoSet(k, v)
    /\ nops' = nops + 1
    /\ UNCHANGED serverVars

GetOp(k) ==
    /\ DoGet(k)
    /\ UNCHANGED nops
    /\ UNCHANGED serverVars

RemoveOp(k) ==
    /\ nops < MaxOps
    /\ DoRemove(k)
    /\ nops' = IF k \in DOMAIN index THEN nops + 1 ELSE nops
    /\ UNCHANGED serverVars

\* The owner drops the engine: its fields are gone, the file stays.
Close ==
    /\ opened
    /\ opened' = FALSE
    /\ before' = View(file, index)
    /\ Install(open(<<>>))
    /\ result' = Ok("close", "")
    /\ compacted' = FALSE
    /\ gone' = {}
    /\ UNCHANGED <<file, nops, last, allOk>>
    /\ UNCHANGED serverVars

\* The replay of open decodes every record of f: while let Some(cmd) .. cmd?
Readable(f) == \A i \in 1..Len(f) : f[i].type # "Torn"

Open ==
    /\ ~opened
    /\ Readable(file)
    /\ opened' = TRUE
    /\ Install(open(file))
    /\ result' = Ok("open", "")
    /\ UNCHANGED <<file, nops, last, allOk, compacted, before, gone>>
    /\ UNCHANGED serverVars

NoExchange == [cmd |-> GetRec(""), resp |-> <<>>, had |-> FALSE]

\* KvStore::open("") on a path without a log file, and no connection yet.
Init ==
    /\ file = <<>>
    /\ opened = TRUE
    /\ index = open(<<>>).index
    /\ wpos = open(<<>>).wpos
    /\ rpos = open(<<>>).rpos
    /\ roff = open(<<>>).roff
    /\ dirt = open(<<>>).dirt
    /\ result = Ok("open", "")
    /\ nops = 0
    /\ last = [k \in Keys |-> Absent]
    /\ allOk = TRUE
    /\ compacted = FALSE
    /\ before = [k \in Keys |-> Absent]
    /\ gone = {}
    /\ conns = <<>>
    /\ accepted = <<>>
    /\ cur = 0
    /\ resp = [c \in 1..MaxConns |-> <<>>]
    /\ closed = {}
    /\ srv = "running"
    /\ handled = <<>>
    /\ exchange = NoExchange

Next ==
    \/ \E k \in Keys, v \in Values : SetOp(k, v)
    \/ \E k \in Keys : GetOp(k)
    \/ \E k \in Keys : RemoveOp(k)
    \/ Close
    \/ Open

Spec == Init /\ [][Next]_vars

(***************************************************************************)
(* KvsServer::run and handle_stream                                         *)
(***************************************************************************)
OpenCmd == [type |-> "Open", key |-> "", value |-> Empty]

\* The commands of the wire schema a client may send.
WireValues == {Str("x", BigLen), Str("y", BigLen)}

WireCommands ==
    {SetRec(k, v) : k \in Keys, v \in WireValues}
        \cup {GetRec(k) : k \in Keys} \cup {RmRec(k) : k \in Keys} \cup {OpenCmd}

SetOk == [tag |-> "SetOk", val |-> Empty, msg |-> ""]

RmOk == [tag |-> "RmOk", val |-> Empty, msg |-> ""]

GetOk(v) == [tag |-> "GetOk", val |-> v, msg |-> ""]

Error(m) == [tag |-> "Error", val |-> Empty, msg |-> m]

\* format!("{}", err): the #[error(..)] texts of KvStoreError.
Display(e) ==
    CASE e = "KeyNotFound" -> "Key not found"
      [] e = "SerdeSerError" -> "Failed to serialize"
      [] e = "InvalidLogFileCommand" -> "Invalid log file command"
      [] OTHER -> "Failed to read/write"

\* A client connects and sends one command; the connection waits in the
\* listener's queue.
Connect(cmd) ==
    /\ srv = "running"
    /\ Len(conns) < MaxConns
    /\ conns' = Append(conns, cmd)
    /\ UNCHANGED <<accepted, cur, resp, closed, srv, handled, exchange>>
    /\ UNCHANGED engineVars
    /\ UNCHANGED historyVars

\* The loop as it would be if it handed each stream to a thread of its own.
CanAcceptAnytime == TRUE

\* The loop of run may take the next connection: no handle_stream is running.
CanAccept == cur = 0

\* for stream in listener.incoming(): the next connection, in arrival order.
Accept ==
    /\ srv = "running"
    /\ CanAccept
    /\ Len(accepted) < Len(conns)
    /\ cur' = Len(accepted) + 1
    /\ accepted' = Append(accepted, Len(accepted) + 1)
    /\ UNCHANGED <<conns, resp, closed, srv, handled, exchange>>
    /\ UNCHANGED engineVars
    /\ UNCHANGED historyVars

\* handle_stream ends: rs was written to the stream, the stream is dropped,
\* and run goes on ("running") or ends as status says.
Reply(rs, status) ==
    /\ resp' = [resp EXCEPT ![cur] = rs]
    /\ closed' = closed \cup {cur}
    /\ handled' = Append(handled, cur)
    /\ exchange' = [cmd |-> conns[cur], resp |-> rs,
                     had |-> conns[cur].key \in Keys /\ last[conns[cur].key].some]
    /\ cur' = 0
    /\ srv' = status
    /\ UNCHANGED <<conns, accepted>>

\* self.kvs.set(..)?; serialize_into(stream, &Response::SetOk)?;
SetReply(r) ==
    IF r.res.ok THEN Reply(<<SetOk>>, "running") ELSE Reply(<<>>, "failed")

\* match self.kvs.get(..): Some -> GetOk, None and Err -> Error
GetReply(r) ==
    IF r.res.kind = "Some" THEN Reply(<<GetOk(r.res.val)>>, "running")
    ELSE IF r.res.kind = "None" THEN Reply(<<Error(Display("KeyNotFound"))>>, "running")
    ELSE Reply(<<Error(Display(r.res.kind))>>, "running")

\* match self.kvs.remove(..): Ok -> RmOk; KeyNotFound -> Error and exit(1);
\* another error -> Error and return Err(err)
RmReply(r) ==
    IF r.res.ok THEN Reply(<<RmOk>>, "running")
    ELSE IF r.res.kind = "KeyNotFound"
    THEN Reply(<<Error(Display("KeyNotFound"))>>, "exited")
    ELSE Reply(<<Error(Display(r.res.kind))>>, "failed")

\* Command::Open { path: _ } => unimplemented!()
OpenReply ==
    /\ Reply(<<>>, "panicked")
    /\ UNCHANGED engineVars
    /\ UNCHANGED <<last, allOk, compacted, before, gone>>

Dispatch(cmd) ==
    CASE cmd.type = "Set" ->
             DoSet(cmd.key, cmd.value) /\ SetReply(set(file, Engine, cmd.key, cmd.value))
      [] cmd.type = "Get" -> DoGet(cmd.key) /\ GetReply(get(file, Engine, cmd.key))
      [] cmd.type = "Rm" -> DoRemove(cmd.key) /\ RmReply(remove(file, Engine, cmd.key))
      [] OTHER -> OpenReply

\* handle_stream on the connection accepted last: decode one command,
\* run it on the engine, write the response.
HandleStream ==
    /\ srv = "running"
    /\ cur # 0
    /\ Dispatch(conns[cur])
    /\ UNCHANGED nops

NextServer ==
    \/ \E cmd \in WireCommands : Connect(cmd)
    \/ Accept
    \/ HandleStream

SpecServer == Init /\ [][NextServer]_vars

(***************************************************************************)
(* open on an arbitrary log                                                 *)
(***************************************************************************)
\* The records a log file may hold: Set and Rm, and Get as the command that
\* is never written by the engine and is skipped by the replay.
LogValues == {Str("x", BigLen), Str("y", 2), Str("z", 1)}

LogRecords ==
    {SetRec(k, v) : k \in Keys, v \in LogValues}
        \cup {RmRec(k) : k \in Keys} \cup {GetRec(k) : k \in Keys}

Logs == UNION {[1..n -> LogRecords] : n \in 0..MaxLog}

\* No engine yet, and any log file at the path.
InitReplay ==
    /\ file \in Logs
    /\ opened = FALSE
    /\ index = open(<<>>).index
    /\ wpos = open(<<>>).wpos
    /\ rpos = open(<<>>).rpos
    /\ roff = open(<<>>).roff
    /\ dirt = open(<<>>).dirt
    /\ result = Ok("close", "")
    /\ nops = 0
    /\ last = [k \in Keys |-> Absent]
    /\ allOk = TRUE
    /\ compacted = FALSE
    /\ before = [k \in Keys |-> Absent]
    /\ gone = {}
    /\ conns = <<>>
    /\ accepted = <<>>
    /\ cur = 0
    /\ resp = [c \in 1..MaxConns |-> <<>>]
    /\ closed = {}
    /\ srv = "running"
    /\ handled = <<>>
    /\ exchange = NoExchange

NextReplay ==
    \/ Open
    \/ \E k \in Keys : GetOp(k)

SpecReplay == InitReplay /\ [][NextReplay]_vars

(***************************************************************************)
(* The process stops in the middle of compact()                             *)
(***************************************************************************)
\* BufWriter::new: the capacity of the writer's buffer (the default of std).
BufCapacity == 8192

\* The places of compact() the process may stop at: after its loop has read
\* the survivors, after remove_file, after the file was created again, after
\* to_writer of some of the survivors, after the flush.
CrashPoints == {"read", "removed", "created", "appended", "flushed"}

\* A write of at least the capacity passes the buffer: BufWriter writes what
\* it holds to the file, and then the bytes of the write.
Direct(r) == r.value.n >= BufCapacity

\* The survivors among the first j of new whose value was written directly.
Directs(new, j) == {i \in 1..j : Direct(new[i])}

\* What the new file holds after to_writer of the first j survivors and
\* before the flush: everything up to the end of the last value written
\* directly; what was written since (less than the capacity) is in the buffer.
Written(new, j) ==
    IF Directs(new, j) = {} THEN <<>>
    ELSE LET b == CHOOSE i \in Directs(new, j) : \A h \in Directs(new, j) : h <= i
         IN  Append(SubSeq(new, 1, b - 1), Torn(new[b]))

\* The log file at the path when the process stops at point p of the
\* compaction of f whose loop ended as lp (j survivors written, for "appended").
CrashDisk(f, lp, p, j) ==
    CASE p = "read" -> f
      [] p = "removed" -> <<>>
      [] p = "created" -> <<>>
      [] p = "appended" -> Written(lp.new, j)
      [] OTHER -> lp.new

\* The points the compaction gets to: its loop returns early on a decode error.
Reaches(lp, p, j) ==
    /\ p # "read" => lp.ok
    /\ j = (IF p = "appended" THEN j ELSE 1)
    /\ p = "appended" => j <= Len(lp.new)

\* set(k, v) appended its record (mid is the engine before the threshold
\* test), ran compact(), and the process stopped at point p of it.
CrashDone(k, mid, lp, p, j) ==
    /\ MustCompact(mid.eng.dirt)
    /\ Reaches(lp, p, j)
    /\ file' = CrashDisk(mid.file, lp, p, j)
    /\ before' = View(mid.file, mid.eng.index)
    /\ opened' = FALSE
    /\ Install(open(<<>>))
    /\ result' = Ok("crash", k)
    /\ compacted' = FALSE
    /\ gone' = {}
    /\ nops' = nops + 1
    /\ UNCHANGED <<last, allOk>>
    /\ UNCHANGED serverVars

CrashMid(k, mid, p, j) ==
    CrashDone(k, mid,
              CompactLoop(mid.file, mid.eng.index, mid.eng.rpos, mid.eng.roff, 0, <<>>, 1),
              p, j)

Crash(k, v, p, j) ==
    /\ opened
    /\ nops < MaxOps
    /\ CrashMid(k, Inserted(file, Engine, k, v), p, j)

\* KvStore::open on a log that ends in a torn record: the replay returns the
\* decode error and no engine is made.
OpenFails ==
    /\ ~opened
    /\ ~Readable(file)
    /\ result' = Err("open", "", "SerdeSerError")
    /\ UNCHANGED <<file, opened, index, wpos, rpos, roff, dirt>>
    /\ UNCHANGED historyVars
    /\ UNCHANGED serverVars

NextCrash ==
    \/ \E k \in Keys, v \in Values : SetOp(k, v)
    \/ \E k \in Keys : GetOp(k)
    \/ \E k \in Keys : RemoveOp(k)
    \/ \E k \in Keys, v \in Values, p \in CrashPoints, j \in 1..Len(KeyOrder) :
           Crash(k, v, p, j)
    \/ Open
    \/ OpenFails

SpecCrash == Init /\ [][NextCrash]_vars

(***************************************************************************)
(* A write of set fails                                                     *)
(***************************************************************************)
\* Where the file system may refuse a write of set: when BufWriter empties
\* its buffer (the head of the record) ahead of a value written directly,
\* when it writes that value, and in self.writer.flush().
FailPoints == {"header", "value", "flush"}

\* Bytes of the value a failing direct write may have written before.
PartLens == 0..MaxPart

\* Failure point p, after m bytes of the value, can happen to set(k, v): a
\* record shorter than the buffer is written by the flush alone.
CanFail(k, v, p, m) ==
    /\ p \in {"header", "value"} => Direct(SetRec(k, v))
    /\ p = "value" => m < v.n
    /\ p # "value" => m = 0

\* set as it would be if it inserted the entry before writing the record.
setFailsInserted(f, e, k, v, p, m) ==
    [file |-> f,
     eng |-> [e EXCEPT !.wpos = e.wpos + RecLen(SetRec(k, v)),
                       !.index = Put(e.index, k,
                                     [start |-> e.wpos, length |-> RecLen(SetRec(k, v))]),
                       !.dirt = e.dirt + Charge(e.index, k)],
     res |-> IoErr("set", k, "IoError")]

\* set(k, v) when the write at point p fails: to_writer(..)? or flush()?
\* returns the error before index.insert.  The file keeps what was written
\* before the failure, and writer.position counts what the writer accepted.
setFails(f, e, k, v, p, m) ==
    CASE p = "header" ->
             [file |-> f,
              eng |-> [e EXCEPT !.wpos = e.wpos + RecLen(Torn(SetRec(k, Str(v.ch, 0))))],
              res |-> IoErr("set", k, "SerdeSerError")]
      [] p = "value" ->
             [file |-> Append(f, Torn(SetRec(k, Str(v.ch, m)))),
              eng |-> [e EXCEPT !.wpos = e.wpos + RecLen(Torn(SetRec(k, Str(v.ch, m))))],
              res |-> IoErr("set", k, "SerdeSerError")]
      [] OTHER ->
             [file |-> IF Direct(SetRec(k, v)) THEN Append(f, Torn(SetRec(k, v))) ELSE f,
              eng |-> [e EXCEPT !.wpos = e.wpos + RecLen(SetRec(k, v))],
              res |-> IoErr("set", k, "IoError")]

SetFailed(r) ==
    /\ file' = r.file
    /\ Install(r.eng)
    /\ result' = r.res
    /\ allOk' = FALSE
    /\ compacted' = FALSE
    /\ nops' = nops + 1
    /\ UNCHANGED <<opened, last, before, gone>>
    /\ UNCHANGED serverVars

SetFails(k, v, p, m) ==
    /\ opened
    /\ nops < MaxOps
    /\ CanFail(k, v, p, m)
    /\ SetFailed(setFails(file, Engine, k, v, p, m))

\* The engine is used until a call returns an I/O error.
Sound == result.val # Str("io", 0)

NextFail ==
    \/ \E k \in Keys, v \in Values : Sound /\ SetOp(k, v)
    \/ \E k \in Keys : Sound /\ GetOp(k)
    \/ \E k \in Keys : Sound /\ RemoveOp(k)
    \/ \E k \in Keys, v \in Values, p \in FailPoints, m \in PartLens :
           Sound /\ SetFails(k, v, p, m)

SpecFail == Init /\ [][NextFail]_vars

(***************************************************************************)
(* Properties                                                               *)
(***************************************************************************)

\* C1: over a history of successful set, remove and get calls (compactions
\* included), a get of k returns Some(v) for the value v of the most recent
\* set(k, v) if no remove(k) followed it, and None otherwise.
C1_LastWriterWins ==
    (opened /\ allOk /\ result.op = "get") => AsOption(result) = last[result.key]

\* C2: after successful sets and removes, closing the engine and opening it
\* again at the same path, every key reads as it did before the close.
C2_DurableAcrossReopen ==
    (opened /\ allOk /\ result.op = "open") => View(file, index) = before

\* C3: right after a set that ran compaction, every key reads as it did
\* right before the compaction.
C3_CompactionPreservesView ==
    (opened /\ compacted) => View(file, index) = before

\* C4: a key removed on this engine and not set again since reads as absent,
\* and removing it again fails with KeyNotFound, whatever else was done.
C4_RemoveInvalidates ==
    opened =>
        \A k \in gone :
            /\ GetResult(file, index, k) = Absent
            /\ remove(file, Engine, k).res = Err("rm", k, "KeyNotFound")
            /\ remove(file, Engine, k).file = file

C4_Witness ==
    /\ opened
    /\ result = Err("rm", result.key, "KeyNotFound")
    /\ result.key \in gone
    /\ nops >= 3
    /\ \E k \in Keys \ gone : k \in DOMAIN index

\* C5: remove(k) of a key that is not in the index returns KeyNotFound and
\* leaves the log file, the index, the dirt counter and the writer position
\* as they were.
C5_RemoveAbsentNoIO ==
    [][(opened /\ opened' /\ result'.op = "rm" /\ result'.key \notin DOMAIN index)
         => (/\ result' = Err("rm", result'.key, "KeyNotFound")
             /\ UNCHANGED <<file, index, dirt, wpos>>)]_vars

C5_Witness ==
    /\ opened
    /\ result = Err("rm", result.key, "KeyNotFound")
    /\ file # <<>>
    /\ result.key \notin gone

\* The last Set or Rm record of f that names k, 0 if there is none.
LastMention(f, k) ==
    LET S == {i \in 1..Len(f) : f[i].key = k /\ f[i].type \in {"Set", "Rm"}}
    IN  IF S = {} THEN 0 ELSE CHOOSE i \in S : \A j \in S : j <= i

\* The byte range of record i of f.
RangeOf(f, i) == [start |-> Offset(f, i), length |-> RecLen(f[i])]

\* C6: open of a log that is any sequence of Set and Rm records (and skipped
\* ones) yields an index holding k exactly when the last record naming k is a
\* Set, mapped to that record's byte range, and get reads that record's value.
C6_ReplayLastRecordWins ==
    opened =>
        \A k \in Keys :
            /\ k \in DOMAIN index <=>
                   (LastMention(file, k) > 0 /\ file[LastMention(file, k)].type = "Set")
            /\ k \in DOMAIN index =>
                   /\ index[k] = RangeOf(file, LastMention(file, k))
                   /\ GetResult(file, index, k) = Present(file[LastMention(file, k)].value)

C6_Witness ==
    /\ opened
    /\ result.op = "open"
    /\ file = <<SetRec("a", Str("x", BigLen)), SetRec("b", Str("y", 2)),
                SetRec("a", Str("z", 1)), RmRec("b")>>
    /\ GetResult(file, index, "a") = Present(Str("z", 1))
    /\ GetResult(file, index, "b") = Absent

C8_OneResponsePerConnection ==
    \A c \in closed :
        /\ Len(resp[c]) = 1
        /\ conns[c].type = "Open" => resp[c][1].tag = "Error"

\* C9: Set answers SetOk; Get of a key that is present answers GetOk with the
\* value last set for it; Rm of a present key answers RmOk; Get of an absent
\* key answers Error("Key not found").
C9_ResponseMapping ==
    LET c == exchange.cmd
    IN  /\ c.type = "Set" => exchange.resp = <<SetOk>>
        /\ (c.type = "Get" /\ exchange.had) => exchange.resp = <<GetOk(last[c.key].val)>>
        /\ (c.type = "Get" /\ c.key \in Keys /\ ~exchange.had)
               => exchange.resp = <<Error("Key not found")>>
        /\ (c.type = "Rm" /\ exchange.had) => exchange.resp = <<RmOk>>

Range(q) == {q[i] : i \in 1..Len(q)}

\* C10: handle_stream runs on the connections in the order they were
\* accepted (which is the order they arrived in), one at a time: at most the
\* connection accepted last is not yet handled, every handled one has its
\* stream dropped, and while another connection is being handled every
\* earlier one has had its response written.
C10_SerializedInAcceptOrder ==
    /\ handled = SubSeq(accepted, 1, Len(handled))
    /\ Len(accepted) - Len(handled) = (IF cur = 0 THEN 0 ELSE 1)
    /\ cur # 0 => cur = accepted[Len(accepted)]
    /\ Range(handled) \subseteq closed
    /\ \A i \in 1..Len(accepted) : accepted[i] = i
    /\ cur # 0 => \A c \in Range(handled) : Len(resp[c]) = 1

C10_Witness ==
    /\ Len(handled) >= 2
    /\ cur # 0
    /\ Len(conns) > Len(accepted)
    /\ conns[cur].type = "Set"
    /\ conns[handled[1]].type = "Set"

\* C11: between engine operations (after open and after every successful
\* set, remove and compaction) every index entry of a key k is the byte
\* range of one complete Set record of the log file whose key is k, so that
\* start + length is where the next record starts (or the end of the file).
C11_PositionRecord ==
    (opened /\ allOk) =>
        \A k \in DOMAIN index :
            \E i \in 1..Len(file) :
                /\ file[i] = SetRec(k, file[i].value)
                /\ index[k].start = Offset(file, i)
                /\ index[k].start + index[k].length = Offset(file, i + 1)

\* C12: after open and after every successful set, remove and compaction
\* the writer's position counter is the byte length of the log file.
C12_WriterAtEndOfFile ==
    (opened /\ allOk) => wpos = FileLen(file)

\* C13: when the process stops at any point of a compaction and the engine
\* is opened again at the same path, the open succeeds and every key reads
\* as it did when the compaction started.
C13_CompactionAtomic ==
    result.op = "open" => (opened /\ View(file, index) = before)

\* C14: dirt is zero after open, whatever the log holds; get and remove
\* leave it unchanged; set adds the length of the entry it replaces (nothing
\* for a new key), and runs compaction exactly when the sum is at least
\* THRESHOLD, after which dirt is zero: dirt < THRESHOLD after every
\* successful set.
C14_DirtAccounting ==
    [][/\ result'.op = "open" => dirt' = 0
       /\ result'.op \in {"get", "rm"} => dirt' = dirt
       /\ result'.op = "set" =>
              LET d == dirt + (IF result'.key \in DOMAIN index
                               THEN index[result'.key].length ELSE 0)
              IN  IF d >= THRESHOLD
                  THEN /\ result'.ok <=> compacted'
                       /\ dirt' = (IF compacted' THEN 0 ELSE d)
                  ELSE /\ ~compacted'
                       /\ result'.ok
                       /\ dirt' = d
       /\ (result'.op = "set" /\ result'.ok) => dirt' < THRESHOLD]_vars

C14_Witness ==
    /\ opened
    /\ compacted
    /\ result = Ok("set", result.key)
    /\ dirt = 0
    /\ Cardinality(DOMAIN index) = 2
    /\ nops = 4

\* What a call of set leaves behind and returns, the reader aside.
Outcome(r) == <<r.file, r.eng.index, r.eng.dirt, r.eng.wpos, r.res>>

\* C15: a get changes nothing that a later operation can see: it leaves the
\* log file, the index, dirt and the writer position as they were, and any
\* set that follows it (with the compaction that set may run) ends as it
\* would have ended without the get.
C15_GetHasNoEffect ==
    [][(opened /\ result'.op = "get") =>
           /\ UNCHANGED <<file, index, dirt, wpos>>
           /\ \A k \in Keys, v \in Values :
                  Outcome(set(file', Engine', k, v)) = Outcome(set(file, Engine, k, v))]_vars

\* C16: whatever commands the handled connections carried (Rm of an absent
\* key, a command whose engine call fails, Open), the accept loop of run is
\* still running, so that the connections that follow are accepted and served.
C16_ServerKeepsRunning ==
    \A i \in 1..Len(handled) : srv = "running"

\* C17: a set or remove that runs no compaction only appends: the file as
\* it was is a prefix of the file as it is, and the one new record (the Set
\* or Rm record of the call) starts at the old end of the file; a remove of
\* an absent key writes nothing.
C17_AppendOnly ==
    [][(opened /\ result'.op \in {"set", "rm"} /\ ~compacted') =>
           /\ SubSeq(file', 1, Len(file)) = file
           /\ result'.op = "set" =>
                  /\ file' = Append(file, SetRec(result'.key, last'[result'.key].val))
                  /\ Offset(file', Len(file')) = FileLen(file)
           /\ (result'.op = "rm" /\ result'.ok) =>
                  /\ file' = Append(file, RmRec(result'.key))
                  /\ Offset(file', Len(file')) = FileLen(file)
           /\ (result'.op = "rm" /\ ~result'.ok) => file' = file]_vars

C17_Witness ==
    /\ opened
    /\ result = Ok("set", result.key)
    /\ ~compacted
    /\ Len(file) = 4
    /\ file[4] = SetRec(result.key, last[result.key].val)
    /\ file[3] = RmRec(result.key)
    /\ file[1].key = result.key

\* C18: a set whose write of the Set record fails returns the error and
\* leaves the index and dirt as they were, so that every key reads as before.
C18_FailedSetKeepsIndex ==
    [][(result'.op = "set" /\ result'.val = Str("io", 0)) =>
           /\ ~result'.ok
           /\ index' = index
           /\ dirt' = dirt
           /\ View(file', index') = View(file, index)]_vars

C18_Witness ==
    /\ result.op = "set"
    /\ result.val = Str("io", 0)
    /\ result.key \in DOMAIN index
    /\ Len(file) = 3
    /\ file[3].type = "Torn"
    /\ dirt > 0

\* The end of the entry of k, no further than the end of the file f.
EndOf(f, idx, k) == Min(idx[k].start + idx[k].length, FileLen(f))

\* The starts and ends of the byte ranges of the entries of idx.
Edges(f, idx) ==
    {Min(idx[k].start, FileLen(f)) : k \in DOMAIN idx} \cup {EndOf(f, idx, k) : k \in DOMAIN idx}

\* Number of bytes, from the least edge of S on, that lie in some entry's range.
RECURSIVE Covered(_, _, _)
Covered(f, idx, S) ==
    IF Cardinality(S) < 2 THEN 0
    ELSE (IF \E k \in DOMAIN idx : idx[k].start <= SetMin(S) /\ SetMin(S) < EndOf(f, idx, k)
          THEN SetMin(S \ {SetMin(S)}) - SetMin(S) ELSE 0)
         + Covered(f, idx, S \ {SetMin(S)})

\* Number of bytes of the file f that no entry of idx refers to.
Garbage(f, idx) == FileLen(f) - Covered(f, idx, Edges(f, idx))

\* C19: dirt is at most the number of bytes of the log file that no index
\* entry refers to, and every compaction that runs leaves the log file
\* shorter by at least THRESHOLD bytes than it was when the compaction began.
C19_DirtBoundsGarbage ==
    [][/\ opened' => dirt' <= Garbage(file', index')
       /\ (opened /\ compacted') =>
              FileLen(file) + RecLen(SetRec(result'.key, last'[result'.key].val))
                  - FileLen(file') >= THRESHOLD]_vars

====
